---- MODULE Spec2Model ----
(***************************************************************************)
(* The execution frame (agoraFuncVM) of the agora runtime: its operand,    *)
(* bookmark and range stacks, the prologue of run and one action per       *)
(* opcode of the dispatch loop.                                            *)
(***************************************************************************)
EXTENDS Integers, Sequences, FiniteSets, TLC

\* ------------------------------------------------------------------ bounds
\* Largest operand index drawn for an instruction.
MaxIx == 2
\* Largest number of arguments passed to run.
MaxArgs == 2
\* Largest number of values a callee returns or a range coroutine yields.
MaxVals == 2
\* Instructions one frame executes before the model stops following it.
MaxSteps == 10
\* The pushes and pops in a sequence on one operand stack.
MaxOps == 8

\* ------------------------------------------------------------------ values
\* A Val: its type tag, and the number or the text it carries (an Object or
\* a Func carries its identity in n).
Val(t, n, s) == [t |-> t, n |-> n, s |-> s]
Nil == Val("nil", 0, "")
Bool(b) == Val("bool", IF b THEN 1 ELSE 0, "")
Number(n) == Val("number", n, "")
String(s) == Val("string", 0, s)
Object(id) == Val("object", id, "")
FuncV(id) == Val("func", id, "")
\* Go's nil interface: the `this` of a plain call, an unset field.
GoNil == Val("gonil", 0, "")

\* Type(v): the type name a type error carries.
Type(v) == v.t

\* Val.Bool(): the truthiness of a value.
Truthy(v) ==
  CASE v.t = "nil" -> FALSE
    [] v.t = "bool" -> v.n = 1
    [] v.t = "number" -> v.n # 0
    [] v.t = "string" -> v.s # ""
    [] OTHER -> TRUE

\* Val.String(): the text of a value, as the name of a variable.
ValString(v) ==
  CASE v.t = "string" -> v.s
    [] v.t = "number" -> (CASE v.n = 0 -> "0" [] v.n = 1 -> "1" [] v.n = 2 -> "2" [] OTHER -> "n")
    [] v.t = "bool" -> (IF v.n = 1 THEN "true" ELSE "false")
    [] OTHER -> v.t

\* A Go map: a function on the set of its keys.
EmptyMap == [k \in {} |-> Nil]
MapSet(m, k, v) == [x \in (DOMAIN m) \cup {k} |-> IF x = k THEN v ELSE m[x]]

\* --------------------------------------------------------------- prototype
\* The constant table of the prototype: entries 0..expArgs-1 name the
\* parameters.  kTable[j] of the source is KTable[j+1].
KTable == <<String("a"), String("b"), Number(1), Number(2)>>
\* The local-variable name table.
LTable == <<"b">>

\* --------------------------------------------------------------- valStack
newValStack == [st |-> <<>>, sp |-> 0]

\* push: the slot written is st[sp] of the source, st[sp+1] here.
vsPushOk(vs) == vs.sp >= 0 /\ vs.sp <= Len(vs.st)
vsPush(vs, v) ==
  IF vs.sp = Len(vs.st)
  THEN [st |-> Append(vs.st, v), sp |-> vs.sp + 1]
  ELSE [st |-> [vs.st EXCEPT ![vs.sp + 1] = v], sp |-> vs.sp + 1]

\* pop: sp is decremented before the slot is read, so a pop of the empty
\* stack leaves sp at -1 and fails on the read.
vsPopOk(vs) == vs.sp - 1 >= 0 /\ vs.sp - 1 < Len(vs.st)
vsTop(vs) == IF vsPopOk(vs) THEN vs.st[vs.sp] ELSE Nil
\* (a pop that leaves the value in the slot it vacates)
vsPopKeepsSlot(vs) == [st |-> vs.st, sp |-> vs.sp - 1]

vsPop(vs) ==
  IF vsPopOk(vs)
  THEN [st |-> [vs.st EXCEPT ![vs.sp] = Nil], sp |-> vs.sp - 1]
  ELSE [st |-> vs.st, sp |-> vs.sp - 1]

\* --------------------------------------------------------------- bkmStack
newBkmStack == [st |-> <<>>, sp |-> 0]
bsPushOk(bs) == bs.sp >= 0 /\ bs.sp <= Len(bs.st)
bsPush(bs, i) ==
  IF bs.sp = Len(bs.st)
  THEN [st |-> Append(bs.st, i), sp |-> bs.sp + 1]
  ELSE [st |-> [bs.st EXCEPT ![bs.sp + 1] = i], sp |-> bs.sp + 1]
bsPopOk(bs) == bs.sp - 1 >= 0 /\ bs.sp - 1 < Len(bs.st)
bsTop(bs) == IF bsPopOk(bs) THEN bs.st[bs.sp] ELSE 0
bsPop(bs) == [st |-> bs.st, sp |-> bs.sp - 1]

\* ------------------------------------------------------------ agoraFuncVM
\* A frame.  err is the panic in flight (NoErr when none): once it is set the
\* rest of the instruction is skipped, as a Go panic unwinds run.
NoErr == [msg |-> "", actual |-> "", expected |-> ""]
Err(msg) == [msg |-> msg, actual |-> "", expected |-> ""]
\* NewTypeError(Type(v), "", expected)
NewTypeError(actual, expected) == [msg |-> "type error", actual |-> actual, expected |-> expected]

newFuncVM ==
  [pc |-> 0, stk |-> newValStack, rng |-> <<>>, bkm |-> newBkmStack,
   vars |-> EmptyMap, this |-> GoNil, args |-> GoNil, err |-> NoErr]

Failed(f) == f.err.msg # ""
Panic(f, e) == IF Failed(f) THEN f ELSE [f EXCEPT !.err = e]

\* f.stk.push(v)
Push(f, v) ==
  IF Failed(f) THEN f
  ELSE IF vsPushOk(f.stk) THEN [f EXCEPT !.stk = vsPush(f.stk, v)]
  ELSE [f EXCEPT !.err = Err("index out of range")]

\* f.stk.pop(): Top is the value returned, Pop the frame afterwards.
Top(f) == vsTop(f.stk)
Pop(f) ==
  IF Failed(f) THEN f
  ELSE IF vsPopOk(f.stk) THEN [f EXCEPT !.stk = vsPop(f.stk)]
  ELSE [f EXCEPT !.stk = vsPop(f.stk), !.err = Err("index out of range")]

\* --------------------------------------------------------------- variables
VARIABLES
  proto,      \* the prototype: its code and expArgs
  vm,         \* the frame run executes (or executed last)
  coroState,  \* val.coroState: "nil", or "vm" when it holds the frame
  heap,       \* the Objects: heap[id] is the key -> value map of Object(id)
  coros,      \* the range coroutines started: seeds, done, released
  mode,       \* "idle" between runs, "running" inside the dispatch loop
  ended,      \* how the last run ended: "none", "ret", "yld", "panic"
  prev,       \* how the run before the current or last one ended
  ret,        \* what the last run returned
  inArgs,     \* the arguments of the current or last run
  cur,        \* the instruction decoded last (op, flg, ix)
  ext,        \* the last call made out of the frame, or coroutine resume
  pre,        \* the frame as it was before the last action
  steps,      \* instructions executed so far
  shadow      \* for a stack driven alone: the values pushed and not yet
              \* popped, and what the last pop returned and should have

vars == <<proto, vm, coroState, heap, coros, mode, ended, prev, ret, inArgs, cur, ext, pre, steps,
          shadow>>

Instr(op, flg, ix) == [op |-> op, flg |-> flg, ix |-> ix]
\* The opcodes the dispatch loop knows.
ArithOps == {"ADD", "SUB", "MUL", "DIV", "MOD"}
CmpOps == {"EQ", "NEQ", "LT", "LTE", "GT", "GTE"}
Opcodes ==
  {"RET", "YLD", "PUSH", "POP", "NOT", "UNM", "TEST", "JMP", "NEW", "SFLD", "GFLD",
   "CFLD", "CALL", "RNGS", "RNGP", "RNGE", "BKMS", "BKME", "DUMP"}
    \cup ArithOps \cup CmpOps
NoExt == [kind |-> "none", callee |-> GoNil, this |-> GoNil, key |-> GoNil,
          coro |-> 0, args |-> <<>>, vals |-> <<>>, e |-> ""]

\* The values a caller passes, a callee returns or a range coroutine yields:
\* Number(j) stands at position j, so that a position is read off the value.
Produced(k) == [j \in 1..k |-> Number(j)]
ArgLists == {Produced(n) : n \in 0..MaxArgs}

\* ------------------------------------------------------------- rangeStack
\* f.rng.push(args...): start a coroutine seeded with args, keep its handle.
rngPush(rng, c, args) ==
  [rng |-> Append(rng, Len(c) + 1),
   coros |-> Append(c, [seeds |-> args, done |-> FALSE, released |-> FALSE])]
\* f.rng.pop(): release the handle started last.
rngPop(rng, c) ==
  [rng |-> SubSeq(rng, 1, Len(rng) - 1),
   coros |-> [c EXCEPT ![rng[Len(rng)]].released = TRUE]]
\* f.rng.clear(): release every handle held.
rngClear(rng, c) ==
  [rng |-> <<>>,
   coros |-> [id \in 1..Len(c) |->
               IF \E j \in 1..Len(rng) : rng[j] = id
               THEN [c[id] EXCEPT !.released = TRUE] ELSE c[id]]]

\* ------------------------------------------------------------ run: prologue
\* createArgsVal: Nil for no argument, or the map of a new Object.
ArgsMap(args) == [k \in {Number(i - 1) : i \in 1..Len(args)} |-> args[k.n + 1]]

\* createLocals: every local name starts at Nil.
createLocals(vs) == [x \in (DOMAIN vs) \cup {LTable[i] : i \in 1..Len(LTable)} |->
                      IF \E i \in 1..Len(LTable) : LTable[i] = x THEN Nil ELSE vs[x]]

\* (a loop that reads the argument after the one it binds)
RECURSIVE BindArgsOffByOne(_, _, _, _)
BindArgsOffByOne(vs, args, j, expArgs) ==
  IF j < expArgs
  THEN BindArgsOffByOne(MapSet(vs, ValString(KTable[j + 1]),
                               IF j + 1 < Len(args) THEN args[j + 2] ELSE Nil),
                        args, j + 1, expArgs)
  ELSE vs

\* The loop over the expected arguments, from j on.
RECURSIVE BindArgs(_, _, _, _)
BindArgs(vs, args, j, expArgs) ==
  IF j < expArgs
  THEN BindArgs(MapSet(vs, ValString(KTable[j + 1]),
                       IF j < Len(args) THEN args[j + 1] ELSE Nil),
                args, j + 1, expArgs)
  ELSE vs

\* The deferred function of run: release the range coroutines unless the
\* run ended by a yield.
ClearRangeAtEntry == TRUE
ClearRangeOnYld == FALSE
Deferred(clearRange, f, c) ==
  IF clearRange THEN rngClear(f.rng, c) ELSE [rng |-> f.rng, coros |-> c]

\* The frame a call runs: the suspended one if any (agoraFuncVal.Call).
CallFrame(this) ==
  IF coroState = "vm" THEN [vm EXCEPT !.err = NoErr]
  ELSE [newFuncVM EXCEPT !.this = this]

\* The fresh-start branch (pc = 0) and the resume branch of run.
FreshStart(f, args) ==
  [f EXCEPT !.vars = BindArgs(createLocals(f.vars), args, 0, proto.expArgs),
            !.args = IF Len(args) = 0 THEN Nil
                     ELSE Object(IF coroState = "vm" THEN Len(heap) + 1 ELSE 1)]
ResumeArg(args) == IF Len(args) > 0 THEN args[1] ELSE Nil
\* (a resume that binds the arguments again)
ResumedRebinding(f, args) ==
  Push([f EXCEPT !.vars = BindArgs(createLocals(f.vars), args, 0, proto.expArgs)],
       ResumeArg(args))
Resumed(f, args) == Push(f, ResumeArg(args))

Run(args, this) ==
  /\ mode = "idle"
  /\ coroState = "vm" => this = Nil
  /\ LET f0 == CallFrame(this)
         fresh == f0.pc = 0
         \* the Objects and the released coroutines of a frame that is gone
         \* are garbage
         Heap0 == IF coroState = "vm" THEN heap ELSE <<>>
         Coros0 == IF coroState = "vm" THEN coros ELSE <<>>
         g == IF fresh THEN FreshStart(f0, args) ELSE Resumed(f0, args)
         d == Deferred(ClearRangeAtEntry, g, Coros0)
     IN /\ heap' = IF fresh /\ Len(args) > 0 THEN Append(Heap0, ArgsMap(args)) ELSE Heap0
        /\ steps' = IF coroState = "vm" THEN steps ELSE 0
        /\ IF Failed(g)
           THEN /\ vm' = [g EXCEPT !.rng = d.rng]
                /\ coros' = d.coros
                /\ mode' = "idle"
                /\ ended' = "panic"
           ELSE /\ vm' = g
                /\ coros' = Coros0
                /\ mode' = "running"
                /\ ended' = "none"
        /\ cur' = Instr(IF fresh THEN "fresh" ELSE "resume", "_", 0)
        /\ pre' = f0
  /\ prev' = ended
  /\ inArgs' = args
  /\ ret' = <<>>
  /\ ext' = NoExt
  /\ UNCHANGED <<proto, coroState, shadow>>

\* ------------------------------------------------------- run: the dispatch loop
\* The frame with the instruction fetched and pc advanced.
Fetchable == mode = "running" /\ steps < MaxSteps /\ vm.pc >= 0 /\ vm.pc < Len(proto.code)
\* i := f.proto.code[f.pc]
Cur == proto.code[vm.pc + 1]
Fetched == [vm EXCEPT !.pc = vm.pc + 1]

\* The end of an instruction that neither returns nor yields: the loop goes
\* on, or the panic in flight unwinds run through its deferred function.
Continue(i, g, h, c, e) ==
  /\ cur' = i
  /\ pre' = vm
  /\ steps' = steps + 1
  /\ heap' = h
  /\ ext' = e
  /\ IF Failed(g)
     THEN LET d == Deferred(ClearRangeAtEntry, g, c)
          IN /\ vm' = [g EXCEPT !.rng = d.rng]
             /\ coros' = d.coros
             /\ mode' = "idle"
             /\ ended' = "panic"
     ELSE /\ vm' = g
          /\ coros' = c
          /\ mode' = "running"
          /\ ended' = ended
  /\ UNCHANGED <<proto, coroState, prev, inArgs, ret, shadow>>

\* (a fetch outside the code that returns to the caller with no value)
FetchFailReturns ==
  /\ mode = "running"
  /\ steps < MaxSteps
  /\ ~(vm.pc >= 0 /\ vm.pc < Len(proto.code))
  /\ cur' = Instr("none", "_", 0)
  /\ pre' = vm
  /\ steps' = steps + 1
  /\ ext' = NoExt
  /\ LET d == Deferred(ClearRangeAtEntry, vm, coros)
     IN /\ vm' = [vm EXCEPT !.rng = d.rng]
        /\ coros' = d.coros
  /\ ended' = "ret"
  /\ ret' = <<>>
  /\ coroState' = "nil"
  /\ mode' = "idle"
  /\ UNCHANGED <<proto, heap, prev, inArgs, shadow>>

\* code[pc] with pc outside the code: an index panic before pc moves.
FetchFail ==
  /\ mode = "running"
  /\ steps < MaxSteps
  /\ ~(vm.pc >= 0 /\ vm.pc < Len(proto.code))
  /\ Continue(Instr("none", "_", 0), Panic(vm, Err("index out of range")), heap, coros, NoExt)

\* OP_RET and OP_YLD: val.coroState and clearRange are set, then the value
\* is popped and the run ends with Set1 of it.  A pop that panics unwinds
\* through the deferred function with clearRange as the instruction left it.
Return(i, g, v, state, clearRange, how) ==
  /\ cur' = i
  /\ pre' = vm
  /\ steps' = steps + 1
  /\ ext' = NoExt
  /\ LET failed == Failed(g)
         d == Deferred(clearRange, g, coros)
     IN /\ vm' = [g EXCEPT !.rng = d.rng]
        /\ coros' = d.coros
        /\ ended' = IF failed THEN "panic" ELSE how
        /\ ret' = IF failed THEN <<>> ELSE <<v>>
  /\ coroState' = state
  /\ mode' = "idle"
  /\ UNCHANGED <<proto, heap, prev, inArgs, shadow>>

\* f.val.coroState = nil
\* (a return that leaves val.coroState as it is)
RetCoroStateKept == coroState
RetCoroState == "nil"
\* f.val.coroState = f
YldCoroState == "vm"

OpRET ==
  /\ Fetchable
  /\ Cur.op = "RET"
  /\ Return(Cur, Pop(Fetched), Top(Fetched), RetCoroState, ClearRangeAtEntry, "ret")

OpYLD ==
  /\ Fetchable
  /\ Cur.op = "YLD"
  /\ Return(Cur, Pop(Fetched), Top(Fetched), YldCoroState, ClearRangeOnYld, "yld")

\* (a getVal that reads Nil from a name that is not found)
getValNilWhenNotFound(f, flg, ix) ==
  CASE flg = "K" -> IF ix < Len(KTable) THEN [v |-> KTable[ix + 1], err |-> NoErr]
                    ELSE [v |-> Nil, err |-> Err("index out of range")]
    [] flg = "V" -> IF ix >= Len(KTable) THEN [v |-> Nil, err |-> Err("index out of range")]
                    ELSE IF ValString(KTable[ix + 1]) \in DOMAIN f.vars
                    THEN [v |-> f.vars[ValString(KTable[ix + 1])], err |-> NoErr]
                    ELSE [v |-> Nil, err |-> NoErr]
    [] flg = "N" -> [v |-> Nil, err |-> NoErr]
    [] flg = "T" -> [v |-> f.this, err |-> NoErr]
    [] flg = "F" -> [v |-> FuncV(ix), err |-> NoErr]
    [] flg = "A" -> [v |-> f.args, err |-> NoErr]
    [] OTHER -> [v |-> Nil, err |-> Err("invalid flag value")]

\* getVal: the operand of a PUSH, or the panic it raises.
\* ctx.getVar finds a name in the frame's variables.
getVal(f, flg, ix) ==
  CASE flg = "K" -> IF ix < Len(KTable) THEN [v |-> KTable[ix + 1], err |-> NoErr]
                    ELSE [v |-> Nil, err |-> Err("index out of range")]
    [] flg = "V" -> IF ix >= Len(KTable) THEN [v |-> Nil, err |-> Err("index out of range")]
                    ELSE IF ValString(KTable[ix + 1]) \in DOMAIN f.vars
                    THEN [v |-> f.vars[ValString(KTable[ix + 1])], err |-> NoErr]
                    ELSE [v |-> Nil, err |-> Err("variable not found")]
    [] flg = "N" -> [v |-> Nil, err |-> NoErr]
    [] flg = "T" -> [v |-> f.this, err |-> NoErr]
    [] flg = "F" -> [v |-> FuncV(ix), err |-> NoErr]
    [] flg = "A" -> [v |-> f.args, err |-> NoErr]
    [] OTHER -> [v |-> Nil, err |-> Err("invalid flag value")]

ExecPUSH(f, flg, ix) ==
  LET r == getVal(f, flg, ix)
  IN IF r.err.msg # "" THEN Panic(f, r.err) ELSE Push(f, r.v)

OpPUSH ==
  /\ Fetchable
  /\ Cur.op = "PUSH"
  /\ Continue(Cur, ExecPUSH(Fetched, Cur.flg, Cur.ix), heap, coros, NoExt)

\* OP_POP: the name is read, the value popped, then ctx.setVar stores it in
\* the scope that holds the name.
\* (a POP that stores the top value and leaves it on the stack)
ExecPOPKeepsTop(f, ix) ==
  IF ix >= Len(KTable) THEN Panic(f, Err("index out of range"))
  ELSE LET nm == ValString(KTable[ix + 1])
       IN IF ~vsPopOk(f.stk) THEN Pop(f)
          ELSE IF nm \in DOMAIN f.vars THEN [f EXCEPT !.vars[nm] = Top(f)]
          ELSE Panic(f, Err("unknown variable"))

ExecPOP(f, ix) ==
  IF ix >= Len(KTable) THEN Panic(f, Err("index out of range"))
  ELSE LET nm == ValString(KTable[ix + 1])
           g == Pop(f)
       IN IF Failed(g) THEN g
          ELSE IF nm \in DOMAIN g.vars THEN [g EXCEPT !.vars[nm] = Top(f)]
          ELSE Panic(g, Err("unknown variable"))

OpPOP ==
  /\ Fetchable
  /\ Cur.op = "POP"
  /\ Continue(Cur, ExecPOP(Fetched, Cur.ix), heap, coros, NoExt)

\* Binary operators: y is popped first, then x; the result is the injected
\* strategy's (arith.Add and the like), which may also panic.
ArithVals == {Number(0), Number(1)}
ExecBinary(f, r, ok) ==
  LET g == Pop(Pop(f))
  IN IF Failed(g) THEN g
     ELSE IF ok THEN Push(g, r) ELSE Panic(g, Err("arithmetic"))

OpArith ==
  /\ Fetchable
  /\ Cur.op \in ArithOps
  /\ \E r \in ArithVals, ok \in BOOLEAN :
       /\ ~ok => r = Number(0)
       /\ Continue(Cur, ExecBinary(Fetched, r, ok), heap, coros, NoExt)

\* OP_UNM: arith.Unm of the value popped.
ExecUnary(f, r, ok) ==
  LET g == Pop(f)
  IN IF Failed(g) THEN g
     ELSE IF ok THEN Push(g, r) ELSE Panic(g, Err("arithmetic"))

OpUNM ==
  /\ Fetchable
  /\ Cur.op = "UNM"
  /\ \E r \in ArithVals, ok \in BOOLEAN :
       /\ ~ok => r = Number(0)
       /\ Continue(Cur, ExecUnary(Fetched, r, ok), heap, coros, NoExt)

\* OP_NOT: the negation of the truthiness of the value popped.
ExecNOT(f) == Push(Pop(f), Bool(~Truthy(Top(f))))

OpNOT ==
  /\ Fetchable
  /\ Cur.op = "NOT"
  /\ Continue(Cur, ExecNOT(Fetched), heap, coros, NoExt)

\* Comparisons: y, then x, are popped; c is cmp.Cmp(x, y).
Relation(op, c) ==
  CASE op = "EQ" -> c = 0
    [] op = "NEQ" -> c # 0
    [] op = "LT" -> c < 0
    [] op = "LTE" -> c <= 0
    [] op = "GT" -> c > 0
    [] op = "GTE" -> c >= 0

ExecCmp(f, op, c) == Push(Pop(Pop(f)), Bool(Relation(op, c)))

OpCmp ==
  /\ Fetchable
  /\ Cur.op \in CmpOps
  /\ \E c \in {-1, 0, 1} :
       Continue(Cur, ExecCmp(Fetched, Cur.op, c), heap, coros, NoExt)

\* OP_TEST: jump over ix instructions when the value popped is falsy.
ExecTEST(f, ix) ==
  LET g == Pop(f)
  IN IF Failed(g) THEN g
     ELSE IF ~Truthy(Top(f)) THEN [g EXCEPT !.pc = g.pc + ix] ELSE g

OpTEST ==
  /\ Fetchable
  /\ Cur.op = "TEST"
  /\ Continue(Cur, ExecTEST(Fetched, Cur.ix), heap, coros, NoExt)

\* (a JMP whose backward offset counts from the next instruction)
ExecJMPFromNext(f, flg, ix) ==
  IF flg = "Jf" THEN [f EXCEPT !.pc = f.pc + ix]
  ELSE [f EXCEPT !.pc = f.pc - ix]

\* OP_JMP: forward with the flag Jf, backward otherwise.
ExecJMP(f, flg, ix) ==
  IF flg = "Jf" THEN [f EXCEPT !.pc = f.pc + ix]
  ELSE [f EXCEPT !.pc = f.pc - (ix + 1)]

OpJMP ==
  /\ Fetchable
  /\ Cur.op = "JMP"
  /\ Continue(Cur, ExecJMP(Fetched, Cur.flg, Cur.ix), heap, coros, NoExt)

\* (a loop that pops the value first and its key second)
RECURSIVE NewLoopValueFirst(_, _, _)
NewLoopValueFirst(f, j, m) ==
  IF j > 0
  THEN LET g1 == Pop(f)
           val == Top(f)
           g2 == Pop(g1)
           key == Top(g1)
       IN IF Failed(g2) THEN [f |-> g2, m |-> m]
          ELSE NewLoopValueFirst(g2, j - 1, MapSet(m, key, val))
  ELSE [f |-> f, m |-> m]

\* OP_NEW: ix times, key then val are popped and set on the new Object.
RECURSIVE NewLoop(_, _, _)
NewLoop(f, j, m) ==
  IF j > 0
  THEN LET g1 == Pop(f)
           key == Top(f)
           g2 == Pop(g1)
           val == Top(g1)
       IN IF Failed(g2) THEN [f |-> g2, m |-> m]
          ELSE NewLoop(g2, j - 1, MapSet(m, key, val))
  ELSE [f |-> f, m |-> m]

ExecNEW(f, ix, h) ==
  LET r == NewLoop(f, ix, EmptyMap)
  IN IF Failed(r.f) THEN [f |-> r.f, heap |-> h]
     ELSE [f |-> Push(r.f, Object(Len(h) + 1)), heap |-> Append(h, r.m)]

OpNEW ==
  /\ Fetchable
  /\ Cur.op = "NEW"
  /\ LET r == ExecNEW(Fetched, Cur.ix, heap)
     IN Continue(Cur, r.f, r.heap, coros, NoExt)

\* Object.Get: Nil for a key that is not set.
ObjGet(m, k) == IF k \in DOMAIN m THEN m[k] ELSE Nil

\* OP_SFLD: vr, k and vl are popped; an Object gets k set to vl.
ExecSFLD(f, h) ==
  LET g1 == Pop(f)
      vr == Top(f)
      g2 == Pop(g1)
      k == Top(g1)
      g3 == Pop(g2)
      vl == Top(g2)
  IN IF Failed(g3) THEN [f |-> g3, heap |-> h]
     ELSE IF vr.t = "object"
     THEN [f |-> g3, heap |-> [h EXCEPT ![vr.n] = MapSet(h[vr.n], k, vl)]]
     ELSE [f |-> Panic(g3, NewTypeError(Type(vr), "object")), heap |-> h]

OpSFLD ==
  /\ Fetchable
  /\ Cur.op = "SFLD"
  /\ LET r == ExecSFLD(Fetched, heap)
     IN Continue(Cur, r.f, r.heap, coros, NoExt)

\* (a GFLD that reads Nil from a target that is not an Object)
ExecGFLDNilOnMismatch(f, h) ==
  LET g1 == Pop(f)
      vr == Top(f)
      g2 == Pop(g1)
      k == Top(g1)
  IN IF Failed(g2) THEN g2
     ELSE IF vr.t = "object" THEN Push(g2, ObjGet(h[vr.n], k))
     ELSE Push(g2, Nil)

\* OP_GFLD: vr and k are popped; the value of k on an Object is pushed.
ExecGFLD(f, h) ==
  LET g1 == Pop(f)
      vr == Top(f)
      g2 == Pop(g1)
      k == Top(g1)
  IN IF Failed(g2) THEN g2
     ELSE IF vr.t = "object" THEN Push(g2, ObjGet(h[vr.n], k))
     ELSE Panic(g2, NewTypeError(Type(vr), "object"))

OpGFLD ==
  /\ Fetchable
  /\ Cur.op = "GFLD"
  /\ Continue(Cur, ExecGFLD(Fetched, heap), heap, coros, NoExt)

\* (a loop that stores the arguments in the order it pops them)
RECURSIVE PopArgsInPopOrder(_, _, _)
PopArgsInPopOrder(f, j, args) ==
  IF j > 0
  THEN LET g == Pop(f)
       IN IF Failed(g) THEN [f |-> g, args |-> args]
          ELSE PopArgsInPopOrder(g, j - 1, [args EXCEPT ![Len(args) - j + 1] = Top(f)])
  ELSE [f |-> f, args |-> args]

\* The loop that pops the j arguments left into args[j-1] .. args[0].
RECURSIVE PopArgs(_, _, _)
PopArgs(f, j, args) ==
  IF j > 0
  THEN LET g == Pop(f)
       IN IF Failed(g) THEN [f |-> g, args |-> args]
          ELSE PopArgs(g, j - 1, [args EXCEPT ![j] = Top(f)])
  ELSE [f |-> f, args |-> args]

\* for _, v := range vals { f.stk.push(v) }
RECURSIVE PushAll(_, _, _)
PushAll(f, vals, j) ==
  IF j <= Len(vals) THEN PushAll(Push(f, vals[j]), vals, j + 1) ELSE f

\* OP_CALL: the callee is popped and checked, the ix arguments are popped,
\* fn.Call(nil, args...) is made and its values are pushed.  vals and ok are
\* what the callee does: it returns vals, or it panics.
ExecCALL(f, ix, vals, ok) ==
  LET g1 == Pop(f)
      x == Top(f)
  IN IF Failed(g1) THEN [f |-> g1, ext |-> NoExt]
     ELSE IF x.t # "func"
     THEN [f |-> Panic(g1, NewTypeError(Type(x), "func")), ext |-> NoExt]
     ELSE LET r == PopArgs(g1, ix, [j \in 1..ix |-> GoNil])
              call == [NoExt EXCEPT !.kind = "call", !.callee = x, !.this = GoNil,
                                    !.args = r.args,
                                    !.vals = IF ok THEN vals ELSE <<>>,
                                    !.e = IF ok THEN "" ELSE "panic"]
          IN IF Failed(r.f) THEN [f |-> r.f, ext |-> NoExt]
             ELSE IF ok THEN [f |-> PushAll(r.f, vals, 1), ext |-> call]
             ELSE [f |-> Panic(r.f, Err("callee panic")), ext |-> call]

OpCALL ==
  /\ Fetchable
  /\ Cur.op = "CALL"
  /\ \E n \in 0..MaxVals, ok \in BOOLEAN :
       /\ ~ok => n = 0
       /\ LET r == ExecCALL(Fetched, Cur.ix, Produced(n), ok)
          IN /\ r.ext.kind = "none" => (n = 0 /\ ok)
             /\ Continue(Cur, r.f, heap, coros, r.ext)

\* OP_CFLD: vr and k are popped, then the ix arguments; the method k of the
\* Object vr is called and its values are pushed.
ExecCFLD(f, ix, vals, ok) ==
  LET g1 == Pop(f)
      vr == Top(f)
      g2 == Pop(g1)
      k == Top(g1)
      r == PopArgs(g2, ix, [j \in 1..ix |-> GoNil])
      call == [NoExt EXCEPT !.kind = "method", !.callee = vr, !.this = vr, !.key = k,
                            !.args = r.args,
                            !.vals = IF ok THEN vals ELSE <<>>,
                            !.e = IF ok THEN "" ELSE "panic"]
  IN IF Failed(r.f) THEN [f |-> r.f, ext |-> NoExt]
     ELSE IF vr.t # "object"
     THEN [f |-> Panic(r.f, NewTypeError(Type(vr), "object")), ext |-> NoExt]
     ELSE IF ok THEN [f |-> PushAll(r.f, vals, 1), ext |-> call]
     ELSE [f |-> Panic(r.f, Err("callee panic")), ext |-> call]

OpCFLD ==
  /\ Fetchable
  /\ Cur.op = "CFLD"
  /\ \E n \in 0..MaxVals, ok \in BOOLEAN :
       /\ ~ok => n = 0
       /\ LET r == ExecCFLD(Fetched, Cur.ix, Produced(n), ok)
          IN /\ r.ext.kind = "none" => (n = 0 /\ ok)
             /\ Continue(Cur, r.f, heap, coros, r.ext)

\* OP_RNGS: the ix seeds are popped and a range coroutine is started.
ExecRNGS(f, ix, c) ==
  LET r == PopArgs(f, ix, [j \in 1..ix |-> GoNil])
      p == rngPush(r.f.rng, c, r.args)
  IN IF Failed(r.f) THEN [f |-> r.f, coros |-> c]
     ELSE [f |-> [r.f EXCEPT !.rng = p.rng], coros |-> p.coros]

OpRNGS ==
  /\ Fetchable
  /\ Cur.op = "RNGS"
  /\ LET r == ExecRNGS(Fetched, Cur.ix, coros)
     IN Continue(Cur, r.f, heap, r.coros, NoExt)

\* (a loop that pushes what was produced and pads nothing)
RECURSIVE PushRangeNoPad(_, _, _, _)
PushRangeNoPad(f, vals, j, ix) ==
  IF j < ix /\ j < Len(vals)
  THEN PushRangeNoPad(Push(f, vals[j + 1]), vals, j + 1, ix)
  ELSE f

\* The values RNGP pushes for a resume that produced vals, from j on.
RECURSIVE PushRange(_, _, _, _)
PushRange(f, vals, j, ix) ==
  IF j < ix
  THEN PushRange(Push(f, IF j < Len(vals) THEN vals[j + 1] ELSE Nil), vals, j + 1, ix)
  ELSE f

\* OP_RNGP: the top coroutine is resumed; e is "" for a resume that
\* produced vals, "end" for gocoro.ErrEndOfCoro, "error" for any other error.
\* (an RNGP that pads the requested count with Nil at the end of the coroutine)
ExecRNGPPadsAtEnd(f, ix, vals, e) ==
  IF Len(f.rng) = 0 THEN Panic(f, Err("index out of range"))
  ELSE IF e = "" \/ e = "end" THEN Push(PushRange(f, vals, 0, ix), Bool(e = ""))
  ELSE Panic(f, Err("coroutine error"))

ExecRNGP(f, ix, vals, e) ==
  IF Len(f.rng) = 0 THEN Panic(f, Err("index out of range"))
  ELSE IF e = "" THEN Push(PushRange(f, vals, 0, ix), Bool(TRUE))
  ELSE IF e # "end" THEN Panic(f, Err("coroutine error"))
  ELSE Push(f, Bool(FALSE))

\* (an RNGP that resumes the coroutine at the bottom of the range stack)
OpRNGPBottom ==
  /\ Fetchable
  /\ Cur.op = "RNGP"
  /\ \E n \in 0..MaxVals, e \in {"", "end", "error"} :
       /\ e # "" => n = 0
       /\ IF Len(vm.rng) = 0 THEN n = 0 /\ e = ""
          ELSE coros[vm.rng[1]].done => e = "end"
       /\ LET id == IF Len(vm.rng) = 0 THEN 0 ELSE vm.rng[1]
              c == IF id # 0 /\ e = "end" THEN [coros EXCEPT ![id].done = TRUE] ELSE coros
              x == IF id = 0 THEN NoExt
                   ELSE [NoExt EXCEPT !.kind = "resume", !.coro = id,
                                      !.vals = Produced(n), !.e = e]
          IN Continue(Cur, ExecRNGP(Fetched, Cur.ix, Produced(n), e), heap, c, x)

OpRNGP ==
  /\ Fetchable
  /\ Cur.op = "RNGP"
  /\ \E n \in 0..MaxVals, e \in {"", "end", "error"} :
       /\ e # "" => n = 0
       /\ IF Len(vm.rng) = 0 THEN n = 0 /\ e = ""
          ELSE coros[vm.rng[Len(vm.rng)]].done => e = "end"
       /\ LET id == IF Len(vm.rng) = 0 THEN 0 ELSE vm.rng[Len(vm.rng)]
              c == IF id # 0 /\ e = "end" THEN [coros EXCEPT ![id].done = TRUE] ELSE coros
              x == IF id = 0 THEN NoExt
                   ELSE [NoExt EXCEPT !.kind = "resume", !.coro = id,
                                      !.vals = Produced(n), !.e = e]
          IN Continue(Cur, ExecRNGP(Fetched, Cur.ix, Produced(n), e), heap, c, x)

\* OP_RNGE: the top coroutine is released.
ExecRNGE(f, c) ==
  IF Len(f.rng) = 0 THEN [f |-> Panic(f, Err("index out of range")), coros |-> c]
  ELSE LET p == rngPop(f.rng, c)
       IN [f |-> [f EXCEPT !.rng = p.rng], coros |-> p.coros]

OpRNGE ==
  /\ Fetchable
  /\ Cur.op = "RNGE"
  /\ LET r == ExecRNGE(Fetched, coros)
     IN Continue(Cur, r.f, heap, r.coros, NoExt)

\* OP_BKMS: the stack pointer is pushed on the bookmark stack.
ExecBKMS(f) ==
  IF bsPushOk(f.bkm) THEN [f EXCEPT !.bkm = bsPush(f.bkm, f.stk.sp)]
  ELSE Panic(f, Err("index out of range"))

OpBKMS ==
  /\ Fetchable
  /\ Cur.op = "BKMS"
  /\ Continue(Cur, ExecBKMS(Fetched), heap, coros, NoExt)

\* OP_BKME: the loop compares got = uint64(sp - bkm) with ix.  A negative
\* difference converts to a value above every ix, so it is never "less".
\* (a loop that pads but never discards)
RECURSIVE BkmeLoopPadOnly(_, _, _)
BkmeLoopPadOnly(f, bkm, ix) ==
  LET d == f.stk.sp - bkm
  IN IF Failed(f) \/ d >= ix THEN f
     ELSE BkmeLoopPadOnly(Push(f, Nil), bkm, ix)

RECURSIVE BkmeLoop(_, _, _)
BkmeLoop(f, bkm, ix) ==
  LET d == f.stk.sp - bkm
  IN IF Failed(f) \/ d = ix THEN f
     ELSE IF d >= 0 /\ d < ix THEN BkmeLoop(Push(f, Nil), bkm, ix)
     ELSE BkmeLoop(Pop(f), bkm, ix)

ExecBKME(f, ix) ==
  IF bsPopOk(f.bkm)
  THEN BkmeLoop([f EXCEPT !.bkm = bsPop(f.bkm)], bsTop(f.bkm), ix)
  ELSE Panic([f EXCEPT !.bkm = bsPop(f.bkm)], Err("index out of range"))

OpBKME ==
  /\ Fetchable
  /\ Cur.op = "BKME"
  /\ Continue(Cur, ExecBKME(Fetched, Cur.ix), heap, coros, NoExt)

\* OP_DUMP: a trace in debug mode, nothing otherwise; the frame is not touched.
OpDUMP ==
  /\ Fetchable
  /\ Cur.op = "DUMP"
  /\ Continue(Cur, Fetched, heap, coros, NoExt)

\* Any other opcode.
OpUnknown ==
  /\ Fetchable
  /\ Cur.op \notin Opcodes
  /\ Continue(Cur, Panic(Fetched, Err("unknown opcode")), heap, coros, NoExt)

\* ---------------------------------------------------------------- programs
\* Every instruction with an operand up to MaxIx, and one of no known opcode.
AllInstrs ==
  {Instr(op, "_", 0) : op \in {"RET", "YLD", "NOT", "UNM", "SFLD", "GFLD", "RNGE",
                               "BKMS", "DUMP", "???"} \cup ArithOps \cup CmpOps}
    \cup {Instr(op, "_", ix) : op \in {"POP", "TEST", "NEW", "CFLD", "CALL", "RNGS",
                                      "RNGP", "BKME"}, ix \in 0..MaxIx}
    \cup {Instr("PUSH", flg, ix) : flg \in {"K", "V", "F"}, ix \in 0..MaxIx}
    \cup {Instr("PUSH", flg, 0) : flg \in {"N", "T", "A", "X"}}
    \cup {Instr("JMP", flg, ix) : flg \in {"Jf", "Jb"}, ix \in 0..MaxIx}

PushK(ix) == Instr("PUSH", "K", ix)
PushNil == Instr("PUSH", "N", 0)
I(op) == Instr(op, "_", 0)
J(op, ix) == Instr(op, "_", ix)

\* The instructions that prepare a frame: a string, a number, Nil, the args
\* Object, a Func, a bookmark, a range coroutine.
SetupInstrs ==
  {PushK(0), PushK(3), PushNil, Instr("PUSH", "A", 0), Instr("PUSH", "F", 0),
   I("BKMS"), J("RNGS", 0)}
\* The frames prepared: nothing, one of these, or two operands (a key
\* under a target, an argument under a callee, two handles).
Setups ==
  {<<>>} \cup {<<a>> : a \in SetupInstrs}
    \cup {<<PushK(0), PushK(3)>>, <<PushNil, PushK(3)>>,
          <<PushK(2), Instr("PUSH", "A", 0)>>, <<PushK(3), Instr("PUSH", "F", 0)>>,
          <<PushK(3), J("RNGS", 1)>>, <<J("RNGS", 0), J("RNGS", 0)>>,
          <<I("BKMS"), PushK(3)>>, <<PushK(3), I("BKMS")>>}

\* One instruction in a prepared frame, then a return.
Singles == {s \o <<i>> \o <<PushNil, I("RET")>> : s \in Setups, i \in AllInstrs}

\* A yield in a prepared frame, then one instruction after the resume.
Yielders ==
  {s \o <<PushK(2), I("YLD")>> \o <<i>> \o <<PushNil, I("RET")>> :
     s \in {<<>>, <<PushK(3)>>, <<J("RNGS", 0)>>, <<I("BKMS")>>}, i \in AllInstrs}

\* b values, a bookmark, n values, then BKME ix.
RECURSIVE Pushes(_)
Pushes(n) == IF n = 0 THEN <<>> ELSE Pushes(n - 1) \o <<PushK((n - 1) % 4)>>
Bookmarks ==
  {Pushes(b) \o <<I("BKMS")>> \o Pushes(n) \o <<J("BKME", ix), PushNil, I("RET")>> :
     b \in 0..2, n \in 0..(MaxIx + 1), ix \in 0..MaxIx}

\* b values, then one or two PUSH/POP pairs.
PairPushes == {PushK(2), PushNil, Instr("PUSH", "V", 1), Instr("PUSH", "A", 0)}
PairPops == {J("POP", 0), J("POP", 1)}
PushPops ==
  {Pushes(b) \o <<p, q>> \o t \o <<PushNil, I("RET")>> :
     b \in 0..2, p \in PairPushes, q \in PairPops,
     t \in {<<>>} \cup {<<p2, q2>> : p2 \in PairPushes, q2 \in PairPops}}

\* Programs of several instructions: object construction and fields, calls,
\* range loops, yields inside loops, jumps.
Scenarios ==
  { \* {"a": 1, "b": 2} as the stack "a", 1, "b", 2
    <<PushK(0), PushK(2), PushK(1), PushK(3), J("NEW", 2), I("RET")>>,
    \* the same pairs with the key on top: 1, "a", 2, "b"
    <<PushK(2), PushK(0), PushK(3), PushK(1), J("NEW", 2), I("RET")>>,
    <<PushK(2), PushK(0), J("NEW", 1), Instr("PUSH", "V", 1), I("RET")>>,
    \* fn(1, 2) and target.a(1, 2)
    <<PushK(2), PushK(3), Instr("PUSH", "F", 1), J("CALL", 2), I("RET")>>,
    <<PushK(0), PushK(2), PushK(3), Instr("PUSH", "F", 1), J("CALL", 2), I("RET")>>,
    <<PushK(2), PushK(3), PushK(0), Instr("PUSH", "A", 0), J("CFLD", 2), I("RET")>>,
    <<PushK(2), PushK(3), PushK(0), PushK(2), J("CFLD", 2), I("RET")>>,
    \* args[1] = "a"; args[1]
    <<PushK(0), PushK(2), Instr("PUSH", "A", 0), I("SFLD"), PushK(2),
      Instr("PUSH", "A", 0), I("GFLD"), I("RET")>>,
    \* a range loop: for ... { } with the body a jump back
    <<PushK(2), J("RNGS", 1), J("RNGP", 2), J("TEST", 3), J("POP", 0), J("POP", 1),
      Instr("JMP", "Jb", 4), I("RNGE"), PushNil, I("RET")>>,
    \* a loop inside a loop
    <<J("RNGS", 0), PushK(2), J("RNGS", 1), J("RNGP", 1), I("RNGE"), J("RNGP", 0),
      I("RNGE"), I("RET")>>,
    \* a yield inside a loop, and a failure after the resume
    <<J("RNGS", 0), J("RNGP", 1), I("YLD"), I("RNGE"), PushNil, I("RET")>>,
    <<J("RNGS", 0), PushK(2), I("YLD"), J("CALL", 0), PushNil, I("RET")>>,
    <<J("RNGS", 0), J("RNGS", 0), PushK(2), I("YLD"), J("RNGP", 1), I("YLD"), I("RET")>>,
    \* yields: x = yield 1; yield x; return x
    <<PushK(2), I("YLD"), J("POP", 1), Instr("PUSH", "V", 1), I("YLD"),
      Instr("PUSH", "V", 1), I("RET")>>,
    <<PushK(0), I("BKMS"), PushK(2), I("YLD"), J("BKME", 1), I("RET")>>,
    \* push/pop pairs
    <<PushK(2), J("POP", 1), PushK(3), J("POP", 1), Instr("PUSH", "V", 1), J("POP", 1),
      PushNil, I("RET")>>,
    \* jumps: back to instruction 0, over the end, a yield after instruction 0
    <<PushK(2), I("YLD"), Instr("JMP", "Jb", 2)>>,
    <<PushK(2), I("YLD"), Instr("JMP", "Jb", 3)>>,
    <<I("DUMP"), PushK(2), Instr("JMP", "Jb", 2)>>,
    <<Instr("JMP", "Jb", 0)>>,
    <<PushK(2), Instr("JMP", "Jf", 1), I("RET"), I("DUMP")>>,
    <<PushNil, J("TEST", 1), I("DUMP"), PushK(2), I("RET")>>,
    \* values under a bookmark consumed inside its region
    <<PushK(2), PushK(3), I("BKMS"), J("POP", 1), J("BKME", 1), PushNil, I("RET")>>,
    <<PushK(2), I("BKMS"), J("POP", 1), J("BKME", 0), PushNil, I("RET")>>,
    \* no return at the end of the code
    <<PushK(2)>>,
    <<>> }

Programs == Singles \cup Yielders \cup Bookmarks \cup PushPops \cup Scenarios

NoShadow == [live |-> <<>>, op |-> "none", got |-> Nil, want |-> Nil]

Init ==
  /\ proto \in [code : Programs, expArgs : 0..MaxArgs]
  /\ vm = newFuncVM
  /\ coroState = "nil"
  /\ heap = <<>>
  /\ coros = <<>>
  /\ mode = "idle"
  /\ ended = "none"
  /\ prev = "none"
  /\ ret = <<>>
  /\ inArgs = <<>>
  /\ cur = Instr("none", "_", 0)
  /\ ext = NoExt
  /\ pre = newFuncVM
  /\ steps = 0
  /\ shadow = NoShadow

Next ==
  \/ \E args \in ArgLists, this \in {Nil, Number(1)} : Run(args, this)
  \/ FetchFail
  \/ OpRET
  \/ OpYLD
  \/ OpPUSH
  \/ OpPOP
  \/ OpArith
  \/ OpUNM
  \/ OpNOT
  \/ OpCmp
  \/ OpTEST
  \/ OpJMP
  \/ OpNEW
  \/ OpSFLD
  \/ OpGFLD
  \/ OpCFLD
  \/ OpCALL
  \/ OpRNGS
  \/ OpRNGP
  \/ OpRNGE
  \/ OpBKMS
  \/ OpBKME
  \/ OpDUMP
  \/ OpUnknown

Spec == Init /\ [][Next]_vars

\* ------------------------------------------------- a valStack driven alone
\* Any sequence of push and pop on the operand stack of a new frame that
\* never pops the empty stack.
StackVals == {Nil, Number(1), Number(2)}

StackInit ==
  /\ proto = [code |-> <<>>, expArgs |-> 0]
  /\ vm = newFuncVM
  /\ coroState = "nil"
  /\ heap = <<>>
  /\ coros = <<>>
  /\ mode = "idle"
  /\ ended = "none"
  /\ prev = "none"
  /\ ret = <<>>
  /\ inArgs = <<>>
  /\ cur = Instr("none", "_", 0)
  /\ ext = NoExt
  /\ pre = newFuncVM
  /\ steps = 0
  /\ shadow = NoShadow

StackPush(v) ==
  /\ steps < MaxOps
  /\ vsPushOk(vm.stk)
  /\ vm' = [vm EXCEPT !.stk = vsPush(vm.stk, v)]
  /\ shadow' = [shadow EXCEPT !.live = Append(shadow.live, v), !.op = "push"]
  /\ steps' = steps + 1
  /\ pre' = vm
  /\ UNCHANGED <<proto, coroState, heap, coros, mode, ended, prev, ret, inArgs, cur, ext>>

StackPop ==
  /\ steps < MaxOps
  /\ vm.stk.sp >= 1
  /\ vm' = [vm EXCEPT !.stk = vsPop(vm.stk)]
  /\ shadow' = [live |-> SubSeq(shadow.live, 1, Len(shadow.live) - 1),
                op |-> "pop",
                got |-> vsTop(vm.stk),
                want |-> shadow.live[Len(shadow.live)]]
  /\ steps' = steps + 1
  /\ pre' = vm
  /\ UNCHANGED <<proto, coroState, heap, coros, mode, ended, prev, ret, inArgs, cur, ext>>

StackNext ==
  \/ \E v \in StackVals : StackPush(v)
  \/ StackPop

StackSpec == StackInit /\ [][StackNext]_vars

\* ------------------------------------------------------------------ claims
\* The value on top of the operand stack of frame f.
TopOf(f) == f.stk.st[f.stk.sp]
\* The operand stacks of f and g hold the same values in their first n slots.
SameBelow(f, g, n) == \A j \in 1..n : f.stk.st[j] = g.stk.st[j]

\* C1: a frame whose run ended by YLD and that is resumed continues at the
\* instruction after the YLD, with the stack as the YLD left it and the first
\* argument of the resume (Nil when there is none) pushed on top; its
\* variables, this, args, bookmarks and range handles are as they were.
C1_ResumeContinuesAfterYield ==
  (cur.op = "resume" /\ prev = "yld") =>
    /\ mode = "running"
    /\ ~Failed(vm)
    /\ vm.pc = pre.pc
    /\ pre.pc >= 1
    /\ proto.code[pre.pc].op = "YLD"
    /\ vm.stk.sp = pre.stk.sp + 1
    /\ TopOf(vm) = (IF Len(inArgs) > 0 THEN inArgs[1] ELSE Nil)
    /\ SameBelow(vm, pre, pre.stk.sp)
    /\ vm.vars = pre.vars
    /\ vm.this = pre.this
    /\ vm.args = pre.args
    /\ vm.bkm = pre.bkm
    /\ vm.rng = pre.rng

\* A resume with two arguments of a frame that yielded with a value on its
\* stack and a parameter bound.
C1_Witness ==
  /\ cur.op = "resume"
  /\ prev = "yld"
  /\ Len(inArgs) = 2
  /\ pre.stk.sp >= 1
  /\ "a" \in DOMAIN vm.vars
  /\ vm.vars["a"] = Number(1)
  /\ vm.args # Nil

Min(a, b) == IF a < b THEN a ELSE b

\* C2: BKME ix closing a bookmark recorded at depth b, from a depth of at
\* least b, leaves the depth at exactly b + ix: what lies above is discarded,
\* what is missing is Nil, and the slots below both depths are untouched.
C2_BkmeNormalises ==
  (cur.op = "BKME" /\ bsPopOk(pre.bkm) /\ pre.stk.sp >= bsTop(pre.bkm)) =>
    LET b == bsTop(pre.bkm)
    IN /\ ~Failed(vm)
       /\ vm.stk.sp = b + cur.ix
       /\ vm.bkm.sp = pre.bkm.sp - 1
       /\ SameBelow(vm, pre, Min(pre.stk.sp, b + cur.ix))
       /\ \A j \in (pre.stk.sp + 1)..(b + cur.ix) : vm.stk.st[j] = Nil

\* A BKME 1 that discards two values above a bookmark at depth 1 or more.
C2_Witness ==
  /\ cur.op = "BKME"
  /\ cur.ix = 1
  /\ bsPopOk(pre.bkm)
  /\ bsTop(pre.bkm) >= 1
  /\ pre.stk.sp = bsTop(pre.bkm) + 3
  /\ vm.stk.sp = bsTop(pre.bkm) + 1

\* C3: a fresh start of a prototype expecting E arguments with N passed binds
\* parameter j to argument j, or to Nil from N on; no variable holds an
\* argument from E on; args is Nil for N = 0 and otherwise an Object holding
\* every argument under its position.
C3_FreshStartBinds ==
  (cur.op = "fresh") =>
    LET E == proto.expArgs
        N == Len(inArgs)
    IN /\ \A j \in 0..(E - 1) :
            /\ ValString(KTable[j + 1]) \in DOMAIN vm.vars
            /\ vm.vars[ValString(KTable[j + 1])] = (IF j < N THEN inArgs[j + 1] ELSE Nil)
       /\ \A x \in DOMAIN vm.vars : \A j \in E..(N - 1) : vm.vars[x] # inArgs[j + 1]
       /\ N = 0 => vm.args = Nil
       /\ N > 0 =>
            /\ vm.args.t = "object"
            /\ vm.args.n \in 1..Len(heap)
            /\ DOMAIN heap[vm.args.n] = {Number(i) : i \in 0..(N - 1)}
            /\ \A i \in 0..(N - 1) : heap[vm.args.n][Number(i)] = inArgs[i + 1]

\* A prototype expecting one argument called with two, and one expecting
\* two called with one, are both fresh starts; this is the first.
C3_Witness ==
  /\ cur.op = "fresh"
  /\ proto.expArgs = 1
  /\ Len(inArgs) = 2
  /\ vm.vars["a"] = Number(1)
  /\ heap[vm.args.n][Number(1)] = Number(2)

\* The handles of the range stack of frame f.
Handles(f) == {f.rng[j] : j \in 1..Len(f.rng)}

\* C4: a run that ends by RET or by a failure leaves no handle on the range
\* stack and every handle it held released; a run that ends by YLD leaves
\* the range stack as it was and releases nothing.
C4_RangeReleasedAtEnd ==
  /\ (mode = "idle" /\ ended \in {"ret", "panic"}) =>
       /\ vm.rng = <<>>
       /\ \A id \in Handles(pre) : coros[id].released
  /\ (mode = "idle" /\ ended = "yld") =>
       /\ vm.rng = pre.rng
       /\ \A id \in Handles(pre) : ~coros[id].released

\* C5: after a run that ended by YLD val.coroState holds the frame; after a
\* run that ended by RET it is empty, and the next call starts a new frame.
C5_SuspendedStateFollowsEnd ==
  /\ (mode = "idle" /\ ended = "yld") => coroState = "vm"
  /\ (mode = "idle" /\ ended = "ret") => coroState = "nil"
  /\ (cur.op \in {"fresh", "resume"} /\ prev = "ret") =>
       /\ cur.op = "fresh"
       /\ pre = [newFuncVM EXCEPT !.this = pre.this]

\* A frame that yielded, was resumed and then returned.
C5_Witness ==
  /\ mode = "idle"
  /\ ended = "ret"
  /\ prev = "yld"
  /\ coroState = "nil"
  /\ steps >= 3

\* C6: RNGP on a coroutine that is exhausted pushes the boolean false and
\* nothing else, whatever the count ix.
C6_RngpExhausted ==
  (cur.op = "RNGP" /\ ext.kind = "resume" /\ ext.e = "end") =>
    /\ ~Failed(vm)
    /\ vm.stk.sp = pre.stk.sp + 1
    /\ TopOf(vm) = Bool(FALSE)
    /\ SameBelow(vm, pre, pre.stk.sp)
    /\ vm.rng = pre.rng

\* An RNGP 2 at the end of the coroutine, over a value on the stack.
C6_Witness ==
  /\ cur.op = "RNGP"
  /\ cur.ix = 2
  /\ ext.kind = "resume"
  /\ ext.e = "end"
  /\ TopOf(vm) = Bool(FALSE)
  /\ vm.stk.sp >= 2

\* C7: RNGP ix on a resume that produced k values pushes ix data values, the
\* first min(k, ix) produced in order and Nil for the rest, then true.
C7_RngpProduced ==
  (cur.op = "RNGP" /\ ext.kind = "resume" /\ ext.e = "") =>
    /\ ~Failed(vm)
    /\ vm.stk.sp = pre.stk.sp + cur.ix + 1
    /\ TopOf(vm) = Bool(TRUE)
    /\ \A j \in 1..cur.ix :
         vm.stk.st[pre.stk.sp + j] = (IF j <= Len(ext.vals) THEN ext.vals[j] ELSE Nil)
    /\ SameBelow(vm, pre, pre.stk.sp)
    /\ vm.rng = pre.rng

\* An RNGP 2 on a resume that produced one value.
C7_Witness ==
  /\ cur.op = "RNGP"
  /\ cur.ix = 2
  /\ ext.kind = "resume"
  /\ ext.e = ""
  /\ Len(ext.vals) = 1
  /\ vm.stk.st[vm.stk.sp - 1] = Nil
  /\ vm.stk.st[vm.stk.sp - 2] = Number(1)

\* The pairs NEW pops from frame f: pair p of ix lies in the slots Lower and
\* Upper, the first pair lowest.
Lower(f, ix, p) == f.stk.st[f.stk.sp - 2 * ix + 2 * p - 1]
Upper(f, ix, p) == f.stk.st[f.stk.sp - 2 * ix + 2 * p]
\* NEW ix took 2*ix values off the frame and pushed a new Object.
NewPushedObject ==
  /\ ~Failed(vm)
  /\ vm.stk.sp = pre.stk.sp - 2 * cur.ix + 1
  /\ TopOf(vm) = Object(Len(heap))
  /\ SameBelow(vm, pre, pre.stk.sp - 2 * cur.ix)

\* C8 as stated: in each pair the value lies on top of its key.
C8_NewValueOnTop ==
  (cur.op = "NEW" /\ pre.stk.sp >= 2 * cur.ix) =>
    /\ NewPushedObject
    /\ DOMAIN heap[Len(heap)] = {Lower(pre, cur.ix, p) : p \in 1..cur.ix}
    /\ \A p \in 1..cur.ix :
         \/ heap[Len(heap)][Lower(pre, cur.ix, p)] = Upper(pre, cur.ix, p)
         \/ \E q \in 1..(p - 1) : Lower(pre, cur.ix, q) = Lower(pre, cur.ix, p)

\* C8 amended: NEW ix pops 2*ix values and pushes one new Object; in each
\* pair the key lies on top and is popped first, its value just below.
C8_NewKeyOnTop ==
  (cur.op = "NEW" /\ pre.stk.sp >= 2 * cur.ix) =>
    /\ NewPushedObject
    /\ DOMAIN heap[Len(heap)] = {Upper(pre, cur.ix, p) : p \in 1..cur.ix}
    /\ \A p \in 1..cur.ix :
         \/ heap[Len(heap)][Upper(pre, cur.ix, p)] = Lower(pre, cur.ix, p)
         \/ \E q \in 1..(p - 1) : Upper(pre, cur.ix, q) = Upper(pre, cur.ix, p)

\* NEW 2 on the stack "a", 1, "b", 2: the Object is {1: "a", 2: "b"}.
C8_Witness ==
  /\ cur.op = "NEW"
  /\ cur.ix = 2
  /\ pre.stk.sp = 4
  /\ pre.stk.st = <<String("a"), Number(1), String("b"), Number(2)>>
  /\ heap[Len(heap)] = [k \in {Number(1), Number(2)} |->
                          IF k = Number(1) THEN String("a") ELSE String("b")]

\* C9: CALL ix pops the callee from the top and the ix values below it,
\* calls it with no this and the arguments in the order they were pushed,
\* and pushes what it returns in order; CFLD ix does so with the target on
\* top, the method's key below it and the arguments below that.
C9_CallPassesArgsInOrder ==
  /\ (/\ cur.op = "CALL"
      /\ pre.stk.sp >= cur.ix + 1
      /\ TopOf(pre).t = "func"
      /\ ext.e # "panic") =>
       LET base == pre.stk.sp - 1 - cur.ix
       IN /\ ext.kind = "call"
          /\ ext.callee = TopOf(pre)
          /\ ext.this = GoNil
          /\ Len(ext.args) = cur.ix
          /\ \A j \in 1..cur.ix : ext.args[j] = pre.stk.st[base + j]
          /\ ~Failed(vm)
          /\ vm.stk.sp = base + Len(ext.vals)
          /\ \A j \in 1..Len(ext.vals) : vm.stk.st[base + j] = ext.vals[j]
          /\ SameBelow(vm, pre, base)
  /\ (/\ cur.op = "CFLD"
      /\ pre.stk.sp >= cur.ix + 2
      /\ TopOf(pre).t = "object"
      /\ ext.e # "panic") =>
       LET base == pre.stk.sp - 2 - cur.ix
       IN /\ ext.kind = "method"
          /\ ext.callee = TopOf(pre)
          /\ ext.key = pre.stk.st[pre.stk.sp - 1]
          /\ Len(ext.args) = cur.ix
          /\ \A j \in 1..cur.ix : ext.args[j] = pre.stk.st[base + j]
          /\ ~Failed(vm)
          /\ vm.stk.sp = base + Len(ext.vals)
          /\ \A j \in 1..Len(ext.vals) : vm.stk.st[base + j] = ext.vals[j]
          /\ SameBelow(vm, pre, base)

\* CALL 2 on the stack "a", 1, 2, fn: fn(1, 2) is called and returns two
\* values, which lie above "a".
C9_Witness ==
  /\ cur.op = "CALL"
  /\ cur.ix = 2
  /\ ext.kind = "call"
  /\ ext.args = <<Number(1), Number(2)>>
  /\ Len(ext.vals) = 2
  /\ vm.stk.sp = 3
  /\ vm.stk.st[1] = String("a")

\* The operand of instruction i resolves in the frame.
Resolves(i) ==
  /\ i.ix < Len(KTable)
  /\ (i.op = "POP" \/ i.flg = "V") => ValString(KTable[i.ix + 1]) \in DOMAIN vm.vars
\* The code up to pc is b pushes of constants, then PUSH/POP pairs.
PairsFrom(b) ==
  /\ \A k \in 1..b : proto.code[k].op = "PUSH" /\ proto.code[k].flg = "K"
  /\ \A k \in (b + 1)..vm.pc :
       /\ proto.code[k].op = (IF (k - b) % 2 = 1 THEN "PUSH" ELSE "POP")
       /\ proto.code[k].flg \in {"K", "V", "N", "T", "A", "F", "_"}
  /\ \A k \in 1..vm.pc : Resolves(proto.code[k])

\* C10: when all the frame has run is PUSH/POP pairs whose names resolve,
\* from a depth of b, the depth is b again (one more after the PUSH of a
\* pair), nothing has failed and the b slots below are untouched.
C10_PushPopPairsKeepDepth ==
  \A b \in 0..Len(proto.code) :
    (/\ cur.op \in {"fresh", "PUSH", "POP"}
     /\ steps = vm.pc
     /\ vm.pc >= b
     /\ vm.pc <= Len(proto.code)
     /\ PairsFrom(b)) =>
      /\ ~Failed(vm)
      /\ vm.stk.sp = b + ((vm.pc - b) % 2)
      /\ \A j \in 1..b : vm.stk.st[j] = KTable[proto.code[j].ix + 1]

\* Two pairs run over one value.
C10_Witness ==
  /\ mode = "running"
  /\ steps = vm.pc
  /\ vm.pc = 5
  /\ PairsFrom(1)
  /\ cur.op = "POP"
  /\ vm.stk.sp = 1
  /\ vm.stk.st[1] = KTable[1]

\* The values the instruction i pops before it checks a type, and the type
\* it expects of the first one.
Operands(i) ==
  CASE i.op = "GFLD" -> 2
    [] i.op = "SFLD" -> 3
    [] i.op = "CFLD" -> 2 + i.ix
    [] i.op = "CALL" -> 1
    [] OTHER -> 0
Expected(i) == IF i.op = "CALL" THEN "func" ELSE "object"
\* The next instruction is a GFLD, SFLD, CFLD or CALL whose operands are on
\* the stack and whose target (callee) is of another type than expected.
Mismatch ==
  /\ Fetchable
  /\ Cur.op \in {"GFLD", "SFLD", "CFLD", "CALL"}
  /\ vm.stk.sp >= Operands(Cur)
  /\ TopOf(vm).t # Expected(Cur)

\* C11: a GFLD, SFLD or CFLD on a target that is not an Object, and a CALL
\* on a callee that is not a Func, end the run with a type error carrying
\* the type of the value and the type expected; nothing is pushed, no field
\* is set and nothing is called.
C11_TypeMismatchFails ==
  [][Mismatch =>
       /\ mode' = "idle"
       /\ ended' = "panic"
       /\ vm'.err = NewTypeError(Type(TopOf(vm)), Expected(Cur))
       /\ vm'.stk.sp = vm.stk.sp - Operands(Cur)
       /\ SameBelow(vm', vm, vm'.stk.sp)
       /\ heap' = heap
       /\ ext' = NoExt
       /\ ret' = <<>>]_vars

\* A GFLD on a number, over a key, has failed with a type error.
C11_Witness ==
  /\ cur.op = "GFLD"
  /\ pre.stk.sp >= 2
  /\ TopOf(pre).t = "number"
  /\ ended = "panic"
  /\ vm.err = NewTypeError("number", "object")

\* C12: in every state of a frame, the state a failed instruction leaves
\* included, 0 <= sp <= len(st).
C12_SpWithinStorage ==
  /\ 0 <= vm.stk.sp
  /\ vm.stk.sp <= Len(vm.stk.st)

\* The forward JMP and the TEST at index pre.pc went where C13 says: a
\* forward JMP to i+1+ix, a TEST, which pops one value, to i+1+ix on a falsy
\* value and to i+1 on a truthy one.
ForwardJumps ==
  /\ (cur.op = "JMP" /\ cur.flg = "Jf") =>
       /\ vm.pc = pre.pc + 1 + cur.ix
       /\ vm.stk = pre.stk
  /\ (cur.op = "TEST" /\ pre.stk.sp >= 1) =>
       /\ ~Failed(vm)
       /\ vm.stk.sp = pre.stk.sp - 1
       /\ SameBelow(vm, pre, vm.stk.sp)
       /\ vm.pc = (IF Truthy(TopOf(pre)) THEN pre.pc + 1 ELSE pre.pc + 1 + cur.ix)

\* C13 as stated: a backward JMP at index i continues at i+1-ix.
C13_BackwardFromNext ==
  /\ ForwardJumps
  /\ (cur.op = "JMP" /\ cur.flg = "Jb") =>
       /\ vm.pc = pre.pc + 1 - cur.ix
       /\ vm.stk = pre.stk

\* C13 amended: a forward JMP at index i continues at i+1+ix, a backward
\* JMP at i-ix, and TEST pops one value and continues at i+1+ix when it is
\* falsy and at i+1 when it is truthy.
C13_BackwardFromJump ==
  /\ ForwardJumps
  /\ (cur.op = "JMP" /\ cur.flg = "Jb") =>
       /\ vm.pc = pre.pc - cur.ix
       /\ vm.stk = pre.stk

\* The JMP 4 backward at index 6 of a range loop has gone to the RNGP at
\* index 2.
C13_Witness ==
  /\ cur = Instr("JMP", "Jb", 4)
  /\ pre.pc = 6
  /\ vm.pc = 2
  /\ Cur.op = "RNGP"

\* C14: a BKME ix at a depth d below the bookmark b pushes Nil until the
\* depth is b+ix and never pops.
C14_BkmeBelowBookmarkPads ==
  (cur.op = "BKME" /\ pre.bkm.sp >= 1 /\ pre.stk.sp < bsTop(pre.bkm)) =>
    /\ ~Failed(vm)
    /\ vm.stk.sp = bsTop(pre.bkm) + cur.ix
    /\ SameBelow(vm, pre, pre.stk.sp)
    /\ \A j \in (pre.stk.sp + 1)..vm.stk.sp : vm.stk.st[j] = Nil

\* C15: a run starts fresh exactly when pc is 0 at entry, the frame saved
\* as the suspended state has pc >= 1, and a resume initialises nothing:
\* the locals, the arguments and this stay as they were.
C15_SavedFramePcPositive ==
  /\ (cur.op \in {"fresh", "resume"}) =>
       /\ (cur.op = "fresh") <=> (pre.pc = 0)
       /\ (cur.op = "resume") <=> (coroState = "vm")
  /\ (cur.op = "resume") =>
       /\ vm.vars = pre.vars
       /\ vm.args = pre.args
       /\ vm.this = pre.this
  /\ (mode = "idle" /\ coroState = "vm") => vm.pc >= 1

\* The step is a RET (a YLD) that pops one value and returns it alone.
ReturnsTop(op, how) ==
  /\ Fetchable
  /\ Cur.op = op
  /\ ended' = how
  /\ ret' = <<TopOf(vm)>>
  /\ vm'.stk.sp = vm.stk.sp - 1
  /\ SameBelow(vm', vm, vm'.stk.sp)
\* The step is a fatal failure: no value is returned.
FailsFatally ==
  /\ ended' = "panic"
  /\ Failed(vm')
  /\ ret' = <<>>

\* C16: a run ends only by a RET or a YLD, each of which pops one value and
\* returns that value alone, or by a fatal failure; a pc past the last
\* instruction is a fatal failure.
C16_RunEndsByRetYldOrFailure ==
  [][/\ (mode = "running" /\ mode' = "idle") =>
          \/ ReturnsTop("RET", "ret")
          \/ ReturnsTop("YLD", "yld")
          \/ FailsFatally
     /\ (mode = "running" /\ vm.pc >= Len(proto.code)) =>
          /\ mode' = "idle"
          /\ FailsFatally
     /\ (Fetchable /\ Cur.op \in {"RET", "YLD"} /\ vm.stk.sp >= 1) =>
          /\ mode' = "idle"
          /\ ReturnsTop(Cur.op, IF Cur.op = "RET" THEN "ret" ELSE "yld")]_vars

\* A run of a program with no RET has moved past its last instruction and
\* failed.
C16_Witness ==
  /\ mode = "idle"
  /\ ended = "panic"
  /\ cur.op = "none"
  /\ pre.pc = Len(proto.code)
  /\ Len(proto.code) >= 1
  /\ ~Failed(pre)
  /\ ret = <<>>

\* The name at index ix of the constants is the name of no variable.
Unresolved(ix) ==
  /\ ix < Len(KTable)
  /\ ValString(KTable[ix + 1]) \notin DOMAIN vm.vars
\* The next instruction is a PUSH or a POP of a name that does not resolve,
\* a PUSH with a flag that is none of K, V, N, T, F, A, or of no known opcode.
UnresolvedPush == Fetchable /\ Cur.op = "PUSH" /\ Cur.flg = "V" /\ Unresolved(Cur.ix)
UnresolvedPop == Fetchable /\ Cur.op = "POP" /\ Unresolved(Cur.ix)
InvalidFlag == Fetchable /\ Cur.op = "PUSH" /\ Cur.flg \notin {"K", "V", "N", "T", "F", "A"}
UnknownOpcode == Fetchable /\ Cur.op \notin Opcodes
\* The step is an RNGP whose resume gave an error that is not the end of
\* the coroutine.
ResumeError == Fetchable /\ Cur.op = "RNGP" /\ ext'.kind = "resume" /\ ext'.e = "error"

\* C17: a name that does not resolve (PUSH of a variable, POP), an invalid
\* flag, an unknown opcode and a resume error other than the end of the
\* coroutine end the run with a fatal failure: nothing is returned, nothing
\* is pushed or stored in its place, and the next step is another call.
C17_FatalFailuresEndRun ==
  [][/\ (UnresolvedPush \/ UnresolvedPop \/ InvalidFlag \/ UnknownOpcode \/ ResumeError) =>
          /\ mode' = "idle"
          /\ FailsFatally
          /\ vm'.vars = vm.vars
          /\ vm'.stk.sp <= vm.stk.sp
          /\ SameBelow(vm', vm, vm'.stk.sp)
          /\ (Cur.op # "POP") => vm'.stk = vm.stk
     /\ (mode = "idle") => cur'.op \in {"fresh", "resume"}]_vars

\* A PUSH of a variable that is not found has ended the run.
C17_Witness ==
  /\ cur.op = "PUSH"
  /\ cur.flg = "V"
  /\ mode = "idle"
  /\ ended = "panic"
  /\ vm.err = Err("variable not found")
  /\ vm.stk = pre.stk
  /\ ret = <<>>

\* C18: whenever val.coroState holds a frame between runs, the last run of
\* that frame ended by YLD.
C18_SavedFrameYielded ==
  (mode = "idle" /\ coroState = "vm") => ended = "yld"

\* The handle on top of the range stack of frame f.
TopHandle(f) == f.rng[Len(f.rng)]

\* C19: RNGS ix pops ix seeds, passes them in the order they were pushed and
\* adds one handle; RNGP resumes the handle started last among those not
\* released and leaves the range stack alone; RNGE releases that handle and
\* no other.
C19_RangeHandlesLifo ==
  /\ (cur.op = "RNGS" /\ pre.stk.sp >= cur.ix) =>
       /\ ~Failed(vm)
       /\ vm.stk.sp = pre.stk.sp - cur.ix
       /\ SameBelow(vm, pre, vm.stk.sp)
       /\ Len(vm.rng) = Len(pre.rng) + 1
       /\ SubSeq(vm.rng, 1, Len(pre.rng)) = pre.rng
       /\ TopHandle(vm) \notin Handles(pre)
       /\ ~coros[TopHandle(vm)].released
       /\ coros[TopHandle(vm)].seeds =
            [j \in 1..cur.ix |-> pre.stk.st[pre.stk.sp - cur.ix + j]]
  /\ (cur.op = "RNGP" /\ Len(pre.rng) >= 1) =>
       /\ ext.kind = "resume"
       /\ ext.coro = TopHandle(pre)
       /\ (ext.e # "error") =>
            /\ vm.rng = pre.rng
            /\ ~coros[ext.coro].released
            /\ \A id \in 1..Len(coros) : id > ext.coro => coros[id].released
  /\ (cur.op = "RNGE" /\ Len(pre.rng) >= 1) =>
       /\ ~Failed(vm)
       /\ vm.stk = pre.stk
       /\ vm.rng = SubSeq(pre.rng, 1, Len(pre.rng) - 1)
       /\ coros[TopHandle(pre)].released
       /\ \A id \in Handles(vm) : ~coros[id].released

\* After the RNGE of an inner loop, an RNGP has resumed the handle of the
\* enclosing loop.
C19_Witness ==
  /\ cur.op = "RNGP"
  /\ pre.rng = <<1>>
  /\ ext.kind = "resume"
  /\ ext.coro = 1
  /\ Len(coros) = 2
  /\ coros[2].released
  /\ coros[2].seeds = <<Number(1)>>
  /\ ~coros[1].released

\* C20: after any pushes and pops that never pop the empty stack, every
\* slot of the storage from sp on holds Nil, the slots below hold the
\* values pushed and not yet popped, and a pop returns the last of them.
C20_VacatedSlotsAreNil ==
  /\ \A j \in (vm.stk.sp + 1)..Len(vm.stk.st) : vm.stk.st[j] = Nil
  /\ vm.stk.sp = Len(shadow.live)
  /\ \A j \in 1..vm.stk.sp : vm.stk.st[j] = shadow.live[j]
  /\ shadow.op = "pop" => shadow.got = shadow.want

\* Three values pushed and two popped: the last pop returned the second
\* value and two slots of the storage are vacant.
C20_Witness ==
  /\ shadow.op = "pop"
  /\ shadow.got = Number(2)
  /\ shadow.live = <<Number(1)>>
  /\ vm.stk.sp = 1
  /\ Len(vm.stk.st) = 3
  /\ pre.stk.st[3] = Nil

====
